---- MODULE Spec2Model ----
(***************************************************************************)
(* PixelLift: the ComparisonSlider component (ComparisonSlider.tsx).       *)
(*                                                                         *)
(* State of one component instance: the two useState cells                 *)
(* (sliderPosition, isDragging), the container ref and its bounding box,   *)
(* the document-level listeners registered by the useEffect, and the       *)
(* position of React's render / passive-effect pipeline.                   *)
(*                                                                         *)
(* Numbers.  sliderPosition is a JavaScript number.  It is modelled as an  *)
(* exact fraction in lowest terms, [num, den]; the value 0/0 that the      *)
(* division produces for a zero-width box is NaN, modelled as den = 0.     *)
(* Coordinates are integers (CSS pixels).                                  *)
(*                                                                         *)
(* Scheduling.  A useState setter only queues a re-render; the effect of   *)
(* a committed render (cleanup of the previous effect, then the new        *)
(* effect body) is a passive effect that runs later.  The component does   *)
(* nothing to order these steps against DOM events, so Render and          *)
(* FlushEffects are steps of their own that interleave with the events.    *)
(***************************************************************************)
EXTENDS Integers, FiniteSets, Sequences, TLC

VARIABLES
    mounted,         \* the component is in the tree: containerRef.current is the <div>
    rect,            \* containerRef.current.getBoundingClientRect(): [left, width]
    sliderPosition,  \* useState(50)
    isDragging,      \* useState(false), with queued updates applied
    rendered,        \* isDragging as seen by the last committed render
    effectPending,   \* the last commit's passive effects have not run yet
    effectDeps,      \* isDragging captured by the effect instance now installed
    listeners,       \* number of handler sets registered on document
    pressed,         \* environment: the pointer pressed on the handle and what
                     \* became of it: "none", "mouse", "touch" (held down),
                     \* "released", "cancelled"
    event            \* the step taken last, with its pointer coordinate and
                     \* what it follows (prev): the kind of the step before it
                     \* if that was a pointer event at the same coordinate,
                     \* "layout" if it is the first pointer event after the
                     \* box changed since an earlier pointer event

vars == <<mounted, rect, sliderPosition, isDragging, rendered, effectPending,
          effectDeps, listeners, pressed, event>>

(* The App component (App.tsx), which owns the three-step workflow *)
VARIABLES
    step,            \* useState<Step>('upload')
    file,            \* useState<File | null>(null): a file name, or "null"
    previewUrl,      \* useState(""): <<>> or the object URL <<"blob", file>>
    isDarkMode,      \* useState(true)
    mode,            \* useState<EnhancementMode>('photo-enhancer')
    strength,        \* useState(50)
    isProcessing,    \* useState(false)
    resultUrl,       \* useState(""): <<>> or the image the backend returned
                     \* for a request, <<"data", file, mode, strength>>
    dimensions,      \* useState({ width: 0, height: 0 })
    resultSummary,   \* useState("")
    requests,        \* the fetches awaited by runs of handleStartEnhancement,
                     \* each with the file, mode and strength it sent
    loading,         \* the files whose Image has not fired onload yet
    did              \* the App step taken last, and the file it was given

appVars == <<step, file, previewUrl, isDarkMode, mode, strength, isProcessing,
             resultUrl, dimensions, resultSummary, requests, loading, did>>

allVars == <<vars, appVars>>

----------------------------------------------------------------------------
(* Bounds of the explored inputs *)

MaxWidth == 3
MaxLeft == 1
MaxX == 4

Widths == (0 .. MaxWidth) \cup {400}
Lefts == 0 .. MaxLeft
ClientXs == (-1 .. MaxX) \cup {100}

Rects == [left : Lefts, width : Widths]

----------------------------------------------------------------------------
(* Numbers *)

RECURSIVE GCD(_, _)
GCD(a, b) == IF b = 0 THEN a ELSE GCD(b, a % b)

NaN == [num |-> 0, den |-> 0]

Num(n) == [num |-> n, den |-> 1]

InitialPosition == 50

\* a / b as a JavaScript number, for a >= 0 and b >= 0
Div(a, b) ==
    IF b = 0
    THEN NaN
    ELSE LET g == GCD(a, b) IN [num |-> a \div g, den |-> b \div g]

\* p * k as a JavaScript number, k a non-negative integer
Times(p, k) ==
    IF p.den = 0
    THEN NaN
    ELSE LET g == GCD(p.num * k, p.den)
         IN [num |-> (p.num * k) \div g, den |-> p.den \div g]

\* a - b as a JavaScript number
Sub(a, b) ==
    IF a.den = 0 \/ b.den = 0
    THEN NaN
    ELSE LET n == a.num * b.den - b.num * a.den
             d == a.den * b.den
             g == GCD(n, d)
         IN [num |-> n \div g, den |-> d \div g]

\* (a + b) / 2 as a JavaScript number
Mid(a, b) ==
    IF a.den = 0 \/ b.den = 0
    THEN NaN
    ELSE LET n == a.num * b.den + b.num * a.den
             d == 2 * a.den * b.den
             g == GCD(n, d)
         IN [num |-> n \div g, den |-> d \div g]

MathMin(a, b) == IF a < b THEN a ELSE b

MathMax(a, b) == IF a > b THEN a ELSE b

----------------------------------------------------------------------------
(* handleMove *)

\* Variant of OffsetX that forgets the upper clamp
OffsetXNoUpperClamp(clientX, r) == MathMax(0, clientX - r.left)

\* Math.max(0, Math.min(clientX - rect.left, rect.width))
OffsetX(clientX, r) == MathMax(0, MathMin(clientX - r.left, r.width))

\* Variant of Percentage that yields a fraction of 1 instead of a percentage
PercentageNoScale(x, r) == Div(x, r.width)

\* (x / rect.width) * 100
Percentage(x, r) == Times(Div(x, r.width), 100)

\* Variant of HandleMove that takes clientX as the offset, ignoring rect.left
HandleMoveIgnoringLeft(clientX) ==
    IF ~mounted
    THEN sliderPosition
    ELSE Percentage(MathMax(0, MathMin(clientX, rect.width)), rect)

\* Variant of HandleMove that eases the divider half-way to the pointer
HandleMoveSmoothed(clientX) ==
    IF ~mounted
    THEN sliderPosition
    ELSE Mid(sliderPosition, Percentage(OffsetX(clientX, rect), rect))

\* Variant of HandleMove that uses a box measured once instead of reading it
HandleMoveStaleBox(clientX) ==
    IF ~mounted
    THEN sliderPosition
    ELSE LET box == [left |-> 0, width |-> 1]
         IN Percentage(OffsetX(clientX, box), box)

\* The value of sliderPosition after handleMove(clientX): unchanged when
\* containerRef.current is null, else the percentage of the box read now.
HandleMove(clientX) ==
    IF ~mounted
    THEN sliderPosition
    ELSE Percentage(OffsetX(clientX, rect), rect)

\* A state setter called on a component that is no longer mounted is dropped.
SetIsDragging(v) == IF mounted THEN v ELSE isDragging

----------------------------------------------------------------------------
(* Render: the two style values computed from sliderPosition *)

\* Variant of ClipPathInset that insets by the position itself
ClipPathInsetFromLeft == sliderPosition

\* clipPath: inset(0 ${100 - sliderPosition}% 0 0): the inset from the right edge
ClipPathInset == Sub(Num(100), sliderPosition)

\* left: ${sliderPosition}%: the handle's offset from the left edge
HandleLeft == sliderPosition

----------------------------------------------------------------------------
(* The effect: its cleanup and its body *)

\* Variant of Cleanup that removes nothing
CleanupLeak(n, deps) == n

\* The cleanup returned by the effect instance whose closure saw `deps`:
\* removeEventListener of the handlers that instance registered, if any.
Cleanup(n, deps) == IF deps THEN n - 1 ELSE n

\* The effect body run with isDragging = d: addEventListener x 4 when dragging.
Attach(n, d) == IF d THEN n + 1 ELSE n

----------------------------------------------------------------------------
Init ==
    /\ mounted = TRUE
    /\ rect \in Rects
    /\ sliderPosition = Num(InitialPosition)
    /\ isDragging = FALSE
    /\ rendered = FALSE
    /\ effectPending = FALSE
    /\ effectDeps = FALSE
    /\ listeners = 0
    /\ pressed = "none"
    /\ event = [kind |-> "mount", clientX |-> 0, prev |-> "none"]

\* The DOM events that carry a pointer coordinate
PointerKinds == {"mousemove", "touchmove", "click"}

\* What the step of kind `kind` at coordinate cx follows
Follows(kind, cx) ==
    IF kind \in PointerKinds
    THEN IF event.kind \in PointerKinds /\ event.clientX = cx
         THEN event.kind
         ELSE IF event.kind = "layout" /\ event.prev = "pointer"
              THEN "layout"
              ELSE "none"
    ELSE IF kind = "layout"
              /\ \/ event.kind \in PointerKinds
                 \/ event.kind = "layout" /\ event.prev = "pointer"
         THEN "pointer"
         ELSE "none"

Step(kind, cx) ==
    event' = [kind |-> kind, clientX |-> cx, prev |-> Follows(kind, cx)]

\* A pointer is held down on the divider handle.
Held == pressed \in {"mouse", "touch"}

\* The handle can be hit only inside a container that has a box on screen
\* (the container is overflow-hidden).
Visible == mounted /\ rect.width > 0

\* onMouseDown on the divider handle
OnMouseDown ==
    /\ Visible
    /\ ~Held
    /\ isDragging' = SetIsDragging(TRUE)
    /\ pressed' = "mouse"
    /\ Step("mousedown", 0)
    /\ UNCHANGED <<mounted, rect, sliderPosition, rendered, effectPending,
                   effectDeps, listeners>>

\* onTouchStart on the divider handle
OnTouchStart ==
    /\ Visible
    /\ ~Held
    /\ isDragging' = SetIsDragging(TRUE)
    /\ pressed' = "touch"
    /\ Step("touchstart", 0)
    /\ UNCHANGED <<mounted, rect, sliderPosition, rendered, effectPending,
                   effectDeps, listeners>>

\* A mouseup anywhere in the document: handleMouseUp runs if it is registered.
\* One pointer is in use at a time: no mouse button goes up under a held touch.
DocMouseUp ==
    /\ pressed # "touch"
    /\ isDragging' = IF listeners > 0 THEN SetIsDragging(FALSE) ELSE isDragging
    /\ pressed' = IF pressed = "mouse" THEN "released" ELSE pressed
    /\ Step("mouseup", 0)
    /\ UNCHANGED <<mounted, rect, sliderPosition, rendered, effectPending,
                   effectDeps, listeners>>

\* A touchend anywhere in the document: the same handleMouseUp.
DocTouchEnd ==
    /\ pressed # "mouse"
    /\ isDragging' = IF listeners > 0 THEN SetIsDragging(FALSE) ELSE isDragging
    /\ pressed' = IF pressed = "touch" THEN "released" ELSE pressed
    /\ Step("touchend", 0)
    /\ UNCHANGED <<mounted, rect, sliderPosition, rendered, effectPending,
                   effectDeps, listeners>>

\* The browser cancels the touch held on the handle.  No touchcancel listener
\* is registered anywhere in the component, so no handler runs.
DocTouchCancel ==
    /\ pressed = "touch"
    /\ pressed' = "cancelled"
    /\ Step("touchcancel", 0)
    /\ UNCHANGED <<mounted, rect, sliderPosition, isDragging, rendered,
                   effectPending, effectDeps, listeners>>

\* A mousemove anywhere in the document: handleMouseMove runs if it is
\* registered, and tests the isDragging of its own closure (effectDeps).
DocMouseMove(cx) ==
    /\ sliderPosition' = IF listeners > 0 /\ effectDeps
                         THEN HandleMove(cx)
                         ELSE sliderPosition
    /\ Step("mousemove", cx)
    /\ UNCHANGED <<mounted, rect, isDragging, rendered, effectPending,
                   effectDeps, listeners, pressed>>

\* A touchmove anywhere in the document: handleTouchMove, on touches[0].clientX.
DocTouchMove(cx) ==
    /\ sliderPosition' = IF listeners > 0 /\ effectDeps
                         THEN HandleMove(cx)
                         ELSE sliderPosition
    /\ Step("touchmove", cx)
    /\ UNCHANGED <<mounted, rect, isDragging, rendered, effectPending,
                   effectDeps, listeners, pressed>>

\* Variant of HandleClick with a computation of its own, without rect.left
HandleClickOwnMath(cx) ==
    /\ Visible
    /\ rect.left <= cx
    /\ cx <= rect.left + rect.width
    /\ sliderPosition' = HandleMoveIgnoringLeft(cx)
    /\ Step("click", cx)
    /\ UNCHANGED <<mounted, rect, isDragging, rendered, effectPending,
                   effectDeps, listeners, pressed>>

\* handleClick: a click on the container (or bubbling up from the handle).
\* A click lands inside the container's box, borders included.
HandleClick(cx) ==
    /\ Visible
    /\ rect.left <= cx
    /\ cx <= rect.left + rect.width
    /\ sliderPosition' = HandleMove(cx)
    /\ Step("click", cx)
    /\ UNCHANGED <<mounted, rect, isDragging, rendered, effectPending,
                   effectDeps, listeners, pressed>>

\* The page lays the container out again: its bounding box changes.
Layout(r) ==
    /\ mounted
    /\ r # rect
    /\ rect' = r
    /\ Step("layout", 0)
    /\ UNCHANGED <<mounted, sliderPosition, isDragging, rendered, effectPending,
                   effectDeps, listeners, pressed>>

\* React re-renders after a state change and commits; the dependency
\* [isDragging] differs from the installed effect's, so the effect is scheduled.
\* Pending passive effects are always flushed before a new render.
Render ==
    /\ mounted
    /\ ~effectPending
    /\ isDragging # rendered
    /\ rendered' = isDragging
    /\ effectPending' = TRUE
    /\ Step("render", 0)
    /\ UNCHANGED <<mounted, rect, sliderPosition, isDragging, effectDeps,
                   listeners, pressed>>

\* React runs the passive effects of the last commit: the cleanup of the
\* installed effect instance, then (if still mounted) the new effect body.
FlushEffects ==
    /\ effectPending
    /\ effectPending' = FALSE
    /\ listeners' = IF mounted
                    THEN Attach(Cleanup(listeners, effectDeps), rendered)
                    ELSE Cleanup(listeners, effectDeps)
    /\ effectDeps' = IF mounted THEN rendered ELSE FALSE
    /\ Step("effects", 0)
    /\ UNCHANGED <<mounted, rect, sliderPosition, isDragging, rendered, pressed>>

\* ResultView leaves the tree (Adjust, Start Over): the ref is cleared and the
\* effect's cleanup is scheduled.
Unmount ==
    /\ mounted
    /\ ~effectPending
    /\ mounted' = FALSE
    /\ effectPending' = TRUE
    /\ Step("unmount", 0)
    /\ UNCHANGED <<rect, sliderPosition, isDragging, rendered, effectDeps,
                   listeners, pressed>>

Next ==
    \/ OnMouseDown
    \/ OnTouchStart
    \/ DocMouseUp
    \/ DocTouchEnd
    \/ DocTouchCancel
    \/ \E cx \in ClientXs : DocMouseMove(cx)
    \/ \E cx \in ClientXs : DocTouchMove(cx)
    \/ \E cx \in ClientXs : HandleClick(cx)
    \/ \E r \in Rects : Layout(r)
    \/ Render
    \/ FlushEffects
    \/ Unmount

TypeOK ==
    /\ mounted \in BOOLEAN
    /\ rect \in Rects
    /\ sliderPosition \in [num : Nat, den : Nat]
    /\ isDragging \in BOOLEAN
    /\ rendered \in BOOLEAN
    /\ effectPending \in BOOLEAN
    /\ effectDeps \in BOOLEAN
    /\ listeners \in Nat
    /\ pressed \in {"none", "mouse", "touch", "released", "cancelled"}
    /\ event.clientX \in ClientXs \cup {0}

----------------------------------------------------------------------------
(* App: values *)

\* The number of AI modes, in the order of the MODES list, that the explored
\* user picks among
MaxModes == 2

\* MODES, in the order of the list
ModeList ==
    <<"photo-enhancer", "smart-upscale", "document-ocr", "restoration",
      "product-clarity">>

Modes == {ModeList[i] : i \in 1 .. Len(ModeList)}

PickableModes == {ModeList[i] : i \in 1 .. MathMin(MaxModes, Len(ModeList))}

\* mapModeToBackend(mode)
MapModeToBackend(m) ==
    CASE m = "photo-enhancer" -> "photo"
      [] m = "smart-upscale" -> "print"
      [] m = "document-ocr" -> "doc"
      [] m = "restoration" -> "old"
      [] m = "product-clarity" -> "product"
      [] OTHER -> "photo"

\* MODE_LABELS[mode]
MODE_LABELS(m) ==
    CASE m = "photo-enhancer" -> "Photo Enhancer"
      [] m = "smart-upscale" -> "Smart Upscale"
      [] m = "document-ocr" -> "Document / OCR"
      [] m = "restoration" -> "Restoration"
      [] m = "product-clarity" -> "Product Clarity"

DigitChars == <<"0", "1", "2", "3", "4", "5", "6", "7", "8", "9">>

\* String(n) for an integer n >= 0: its decimal digits
RECURSIVE NumberToString(_)
NumberToString(n) ==
    IF n < 10
    THEN <<DigitChars[n + 1]>>
    ELSE NumberToString(n \div 10) \o <<DigitChars[(n % 10) + 1]>>

DefaultStrength == 50

\* The strengths the explored user drags the Slider to: its max
StrengthPicks == {100}

Steps == {"upload", "configure", "result"}

\* The files the explored user drops or chooses, and the MIME type the browser
\* reports for each, as a sequence of characters
Candidates == {"photo.png", "scan.jpeg", "notes.txt", "raw.bin", "imagery"}

TypeOf(f) ==
    CASE f = "photo.png" -> <<"i", "m", "a", "g", "e", "/", "p", "n", "g">>
      [] f = "scan.jpeg" -> <<"i", "m", "a", "g", "e", "/", "j", "p", "e", "g">>
      [] f = "notes.txt" -> <<"t", "e", "x", "t", "/", "p", "l", "a", "i", "n">>
      [] f = "raw.bin" -> <<>>
      [] f = "imagery" -> <<"i", "m", "a", "g", "e">>

\* "image/"
ImagePrefix == <<"i", "m", "a", "g", "e", "/">>

\* Variant of StartsWith that compares only as far as the shorter string goes
StartsWithAsFarAsGiven(str, prefix) ==
    LET n == MathMin(Len(str), Len(prefix))
    IN SubSeq(str, 1, n) = SubSeq(prefix, 1, n)

\* String.prototype.startsWith
StartsWith(str, prefix) ==
    /\ Len(str) >= Len(prefix)
    /\ SubSeq(str, 1, Len(prefix)) = prefix

\* URL.createObjectURL(selectedFile)
ObjectUrl(f) == <<"blob", f>>

\* The natural size of the image in file f, as img.onload reads it
SizeOf(f) ==
    IF f = "photo.png"
    THEN [width |-> 640, height |-> 480]
    ELSE [width |-> 800, height |-> 600]

NoDimensions == [width |-> 0, height |-> 0]

\* The image_data the backend returns for a request
ImageData(req) == <<"data", req.file, req.mode, req.strength>>

\* The summaries a response may carry (data.summary may be empty)
Summaries == {"", "Enhancement complete."}

\* s with its i-th element removed
Without(s, i) == SubSeq(s, 1, i - 1) \o SubSeq(s, i + 1, Len(s))

----------------------------------------------------------------------------
(* App: operations *)

AppInit ==
    /\ step = "upload"
    /\ file = "null"
    /\ previewUrl = <<>>
    /\ isDarkMode = TRUE
    /\ mode = "photo-enhancer"
    /\ strength = DefaultStrength
    /\ isProcessing = FALSE
    /\ resultUrl = <<>>
    /\ dimensions = NoDimensions
    /\ resultSummary = ""
    /\ requests = <<>>
    /\ loading = {}
    /\ did = [kind |-> "load", arg |-> ""]

Did(kind, arg) == did' = [kind |-> kind, arg |-> arg]

\* handleFileSelect(selectedFile)
HandleFileSelect(f) ==
    /\ file' = f
    /\ previewUrl' = ObjectUrl(f)
    /\ loading' = loading \cup {f}
    /\ step' = "configure"
    /\ UNCHANGED <<isDarkMode, mode, strength, isProcessing, resultUrl,
                   dimensions, resultSummary, requests>>

\* UploadZone: handleDrop / handleChange -> validateAndUpload(file).  The zone
\* is rendered in the upload step only.
ValidateAndUpload(f) ==
    /\ step = "upload"
    /\ IF ~StartsWith(TypeOf(f), ImagePrefix)
       THEN /\ Did("rejected", f)
            /\ UNCHANGED <<step, file, previewUrl, isDarkMode, mode, strength,
                           isProcessing, resultUrl, dimensions, resultSummary,
                           requests, loading>>
       ELSE /\ Did("fileSelect", f)
            /\ HandleFileSelect(f)

\* img.onload of the Image created by handleFileSelect for f
ImgOnload(f) ==
    /\ f \in loading
    /\ loading' = loading \ {f}
    /\ dimensions' = SizeOf(f)
    /\ Did("imgOnload", "")
    /\ UNCHANGED <<step, file, previewUrl, isDarkMode, mode, strength,
                   isProcessing, resultUrl, resultSummary, requests>>

\* The ConfigurationPanel is rendered: step === 'configure' && file
PanelShown == step = "configure" /\ file # "null"

\* onModeChange(m.id): a click on a mode card
OnModeChange(m) ==
    /\ PanelShown
    /\ mode' = m
    /\ Did("modeChange", "")
    /\ UNCHANGED <<step, file, previewUrl, isDarkMode, strength, isProcessing,
                   resultUrl, dimensions, resultSummary, requests, loading>>

\* onStrengthChange(vals[0]): the strength Slider moved
OnStrengthChange(v) ==
    /\ PanelShown
    /\ strength' = v
    /\ Did("strengthChange", "")
    /\ UNCHANGED <<step, file, previewUrl, isDarkMode, mode, isProcessing,
                   resultUrl, dimensions, resultSummary, requests, loading>>

\* Variant of StartEnabled for a button that is never disabled
StartNeverDisabled == PanelShown

\* The Start Enhancement button can be clicked: disabled={isProcessing}
StartEnabled == PanelShown /\ ~isProcessing

\* handleStartEnhancement, up to its first await: the fetch is sent
HandleStartEnhancement ==
    /\ StartEnabled
    /\ Did("start", "")
    /\ IF file = "null" \/ previewUrl = <<>>
       THEN UNCHANGED <<isProcessing, requests>>
       ELSE /\ isProcessing' = TRUE
            /\ requests' = Append(requests,
                                  [file |-> file,
                                   mode |-> MapModeToBackend(mode),
                                   strength |-> NumberToString(strength)])
    /\ UNCHANGED <<step, file, previewUrl, isDarkMode, mode, strength,
                   resultUrl, dimensions, resultSummary, loading>>

\* handleStartEnhancement resumes: resp.ok and resp.json() parsed
FetchSucceeds(i, summary) ==
    /\ i \in 1 .. Len(requests)
    /\ resultUrl' = ImageData(requests[i])
    /\ resultSummary' = summary
    /\ step' = "result"
    /\ isProcessing' = FALSE
    /\ requests' = Without(requests, i)
    /\ Did("fetchOk", "")
    /\ UNCHANGED <<file, previewUrl, isDarkMode, mode, strength, dimensions,
                   loading>>

\* Variant of FetchFails without the finally block
FetchFailsNoFinally(i) ==
    /\ i \in 1 .. Len(requests)
    /\ requests' = Without(requests, i)
    /\ Did("fetchFailed", "")
    /\ UNCHANGED <<step, file, previewUrl, isDarkMode, mode, strength,
                   isProcessing, resultUrl, dimensions, resultSummary, loading>>

\* handleStartEnhancement resumes in catch: fetch rejected, !resp.ok, or
\* resp.json() threw
FetchFails(i) ==
    /\ i \in 1 .. Len(requests)
    /\ isProcessing' = FALSE
    /\ requests' = Without(requests, i)
    /\ Did("fetchFailed", "")
    /\ UNCHANGED <<step, file, previewUrl, isDarkMode, mode, strength,
                   resultUrl, dimensions, resultSummary, loading>>

\* handleAdjust: the Adjust button of the ResultView
HandleAdjust ==
    /\ step = "result"
    /\ step' = "configure"
    /\ Did("adjust", "")
    /\ UNCHANGED <<file, previewUrl, isDarkMode, mode, strength, isProcessing,
                   resultUrl, dimensions, resultSummary, requests, loading>>

\* Variant of HandleReset that keeps the enhancement settings
HandleResetKeepsSettings ==
    /\ file' = "null"
    /\ previewUrl' = <<>>
    /\ resultUrl' = <<>>
    /\ step' = "upload"
    /\ Did("reset", "")
    /\ UNCHANGED <<isDarkMode, mode, strength, isProcessing, dimensions,
                   resultSummary, requests, loading>>

\* handleReset: the logo (always shown), Change Image, Start Over
HandleReset ==
    /\ file' = "null"
    /\ previewUrl' = <<>>
    /\ resultUrl' = <<>>
    /\ mode' = "photo-enhancer"
    /\ strength' = DefaultStrength
    /\ step' = "upload"
    /\ Did("reset", "")
    /\ UNCHANGED <<isDarkMode, isProcessing, dimensions, resultSummary,
                   requests, loading>>

\* ResultView header: "Processed with {MODE_LABELS[mode]} at {strength}%
\* strength", from the mode and strength props the App passes
ShownMode == MODE_LABELS(mode)

ShownStrength == NumberToString(strength)

\* setIsDarkMode(!isDarkMode)
ToggleTheme ==
    /\ isDarkMode' = ~isDarkMode
    /\ Did("theme", "")
    /\ UNCHANGED <<step, file, previewUrl, mode, strength, isProcessing,
                   resultUrl, dimensions, resultSummary, requests, loading>>

----------------------------------------------------------------------------
(* Specifications *)

\* The ComparisonSlider on its own, the App at rest: the steps of Next
SliderNext ==
    \/ OnMouseDown /\ UNCHANGED appVars
    \/ OnTouchStart /\ UNCHANGED appVars
    \/ DocMouseUp /\ UNCHANGED appVars
    \/ DocTouchEnd /\ UNCHANGED appVars
    \/ DocTouchCancel /\ UNCHANGED appVars
    \/ \E cx \in ClientXs : DocMouseMove(cx) /\ UNCHANGED appVars
    \/ \E cx \in ClientXs : DocTouchMove(cx) /\ UNCHANGED appVars
    \/ \E cx \in ClientXs : HandleClick(cx) /\ UNCHANGED appVars
    \/ \E r \in Rects : Layout(r) /\ UNCHANGED appVars
    \/ Render /\ UNCHANGED appVars
    \/ FlushEffects /\ UNCHANGED appVars
    \/ Unmount /\ UNCHANGED appVars

\* The slider as constructed, the App as first rendered
SliderStart == Init /\ AppInit

Spec == SliderStart /\ [][SliderNext]_allVars

\* The App on its own, the ComparisonSlider at rest
SliderAtRest == Init /\ rect = [left |-> 0, width |-> 0]

\* The steps of the App: the user's actions, img.onload, and the two ways a
\* pending fetch settles
AppStep ==
    \/ \E f \in Candidates : ValidateAndUpload(f) /\ UNCHANGED vars
    \/ \E f \in Candidates : ImgOnload(f) /\ UNCHANGED vars
    \/ \E m \in PickableModes : OnModeChange(m) /\ UNCHANGED vars
    \/ \E v \in StrengthPicks : OnStrengthChange(v) /\ UNCHANGED vars
    \/ HandleStartEnhancement /\ UNCHANGED vars
    \/ \E i \in 1 .. Len(requests), summary \in Summaries :
           FetchSucceeds(i, summary) /\ UNCHANGED vars
    \/ \E i \in 1 .. Len(requests) : FetchFails(i) /\ UNCHANGED vars
    \/ HandleAdjust /\ UNCHANGED vars
    \/ HandleReset /\ UNCHANGED vars
    \/ ToggleTheme /\ UNCHANGED vars

\* The App as first rendered, the slider at rest
AppStart == AppInit /\ SliderAtRest

SpecApp == AppStart /\ [][AppStep]_allVars

----------------------------------------------------------------------------
(* Vocabulary of the properties *)

Moves == {"mousemove", "touchmove"}

PointerEvents == Moves \cup {"click"}

\* p is a number in the closed range [0, 100] (NaN is not)
InRange(p) == p.den > 0 /\ 0 <= p.num /\ p.num <= 100 * p.den

\* p = x / w * 100, by cross-multiplication
IsPercentOf(p, x, w) == p.den > 0 /\ w > 0 /\ p.num * w = 100 * x * p.den

\* clamp(v, lo, hi)
ClampTo(v, lo, hi) == IF v < lo THEN lo ELSE IF v > hi THEN hi ELSE v

\* The step being taken is a pointer event that reaches handleMove: a click,
\* or a move delivered to a registered document handler.
ReachesHandleMove ==
    \/ event'.kind = "click"
    \/ event'.kind \in Moves /\ listeners > 0

\* The step being taken reads a container without measurable geometry.
NoGeometry == ~mounted \/ rect.width = 0

----------------------------------------------------------------------------
(* C1: in every reachable state sliderPosition is a number in [0, 100]. *)
C1_PositionInRange == InRange(sliderPosition)

(* C2: a move or click event taken while the container has no measurable
   geometry (no element, or a box of width 0) changes neither sliderPosition
   nor isDragging. *)
C2_NoGeometryIgnored ==
    [][(event'.kind \in PointerEvents /\ NoGeometry)
         => (sliderPosition' = sliderPosition /\ isDragging' = isDragging)]_vars

(* C3: while the component is mounted, isDragging is true exactly while a
   press on the handle is held and not yet released. *)
C3_DraggingIffHeld == mounted => (isDragging <=> Held)

(* C4: a touch cancellation received while dragging leaves the slider idle. *)
C4_TouchCancelEndsDrag ==
    [][(event'.kind = "touchcancel" /\ mounted /\ isDragging)
         => ~isDragging']_vars

C7_ClampedAtEdges ==
    [][(ReachesHandleMove /\ mounted /\ rect.width > 0)
         => /\ (event'.clientX - rect.left <= 0 => sliderPosition' = Num(0))
            /\ (event'.clientX - rect.left >= rect.width
                  => sliderPosition' = Num(100))]_vars

C7_Witness ==
    /\ event.kind \in Moves
    /\ listeners > 0 /\ mounted /\ rect.width > 0
    /\ event.clientX - rect.left > rect.width
    /\ sliderPosition = Num(100)

(* C8: a click on the container while idle sets sliderPosition to the click
   offset as a percentage of the container width (offset 100 in width 400
   gives 25) and leaves isDragging false. *)
C8_ClickRepositions ==
    [][(event'.kind = "click" /\ ~isDragging)
         => /\ ~isDragging'
            /\ IsPercentOf(sliderPosition', event'.clientX - rect.left,
                           rect.width)
            /\ (rect.width = 400 /\ event'.clientX - rect.left = 100
                  => sliderPosition' = Num(25))]_vars

C8_Witness ==
    /\ event.kind = "click"
    /\ ~isDragging
    /\ rect.width = 400
    /\ event.clientX - rect.left = 100
    /\ sliderPosition = Num(25)

(* C9: at most one set of document handlers is registered at any time; once
   the effects of the current state have run, handlers are registered if and
   only if the component is mounted and dragging; none remains once the
   effects of an unmount have run. *)
EffectsHaveRun == ~effectPending /\ (mounted => rendered = isDragging)

C9_HandlersScopedToDrag ==
    /\ listeners \in {0, 1}
    /\ EffectsHaveRun => (listeners > 0 <=> (mounted /\ isDragging))
    /\ (~mounted /\ ~effectPending) => listeners = 0

C9_Witness ==
    /\ ~mounted
    /\ ~effectPending
    /\ isDragging
    /\ listeners = 0
    /\ event.kind = "effects"

C11_SameCoordinateTwice ==
    [][(event'.kind \in PointerKinds /\ event'.prev = event'.kind)
         => sliderPosition' = sliderPosition]_vars

C11_Witness ==
    /\ event.kind = "click"
    /\ event.prev = "click"
    /\ rect.width = 3
    /\ event.clientX - rect.left = 1
    /\ sliderPosition = [num |-> 100, den |-> 3]

(* C12: in every reachable state the overlay's inset from the right edge and
   sliderPosition add up to 100, and the handle's left offset is
   sliderPosition: the clip boundary, 100 minus the inset, is where the
   handle is. *)
IsComplement(q, p) ==
    IF p.den = 0
    THEN q.den = 0
    ELSE q.den > 0 /\ q.num * p.den + p.num * q.den = 100 * q.den * p.den

C12_ClipMeetsHandle ==
    /\ IsComplement(ClipPathInset, sliderPosition)
    /\ HandleLeft = sliderPosition
    /\ Sub(Num(100), ClipPathInset) = HandleLeft
    /\ InRange(sliderPosition) => InRange(ClipPathInset)

C12_Witness ==
    /\ event.kind \in Moves
    /\ sliderPosition = [num |-> 200, den |-> 3]
    /\ ClipPathInset = [num |-> 100, den |-> 3]
    /\ HandleLeft = [num |-> 200, den |-> 3]

(* C13: every pointer event that reaches handleMove computes the position from
   the container's box as it is at that event, also when the box has changed
   since the previous pointer event. *)
C13_GeometryReadAtEvent ==
    [][(ReachesHandleMove /\ mounted /\ rect.width > 0)
         => sliderPosition' =
              Div(100 * ClampTo(event'.clientX - rect.left, 0, rect.width),
                  rect.width)]_vars

C13_Witness ==
    /\ event.kind \in Moves
    /\ event.prev = "layout"
    /\ listeners > 0 /\ mounted
    /\ rect = [left |-> 1, width |-> 3]
    /\ event.clientX = 2
    /\ sliderPosition = [num |-> 100, den |-> 3]

(* C16: a click and a move while the drag handlers are registered, taken one
   after the other at the same clientX over the same box, leave sliderPosition
   at the same value. *)
C16_ClickAndMoveAgree ==
    [][(/\ event'.kind \in PointerKinds
        /\ event'.prev \in PointerKinds
        /\ (event'.kind = "click") # (event'.prev = "click")
        /\ mounted /\ listeners > 0)
         => sliderPosition' = sliderPosition]_vars

C16_Witness ==
    /\ event.kind \in Moves
    /\ event.prev = "click"
    /\ mounted /\ listeners > 0
    /\ rect.width = 3
    /\ event.clientX - rect.left = 2
    /\ sliderPosition = [num |-> 200, den |-> 3]

----------------------------------------------------------------------------
(* Properties of the App *)

\* The candidate files whose type begins with image/
ImageFiles == {"photo.png", "scan.jpeg"}

(* C14: step is always one of upload, configure, result and starts at upload;
   configure is entered only from upload by selecting a file or from result
   via Adjust, and result is entered only from configure when an enhancement
   request succeeds. *)
C14_StepOrder ==
    /\ step = "upload"
    /\ [][/\ step' \in {"upload", "configure", "result"}
          /\ (step' = "configure" /\ step # "configure")
               => \/ step = "upload" /\ did'.kind = "fileSelect"
                  \/ step = "result" /\ did'.kind = "adjust"
          /\ (step' = "result" /\ step # "result")
               => step = "configure" /\ did'.kind = "fetchOk"]_allVars

(* C15: while isProcessing is true the Start Enhancement button is disabled,
   and at most one request to the backend is outstanding at any time. *)
C15_OneRequestAtATime ==
    /\ isProcessing => ~StartEnabled
    /\ Len(requests) <= 1

C15_Witness ==
    /\ isProcessing
    /\ Len(requests) = 1
    /\ PanelShown
    /\ file # requests[1].file
    /\ ~StartEnabled

(* C17: a failed request leaves step, resultUrl and resultSummary unchanged;
   after either outcome isProcessing is false; isProcessing is true only
   while a request is outstanding. *)
C17_FailureLeavesResult ==
    /\ isProcessing = FALSE
    /\ [][/\ did'.kind = "fetchFailed"
               => /\ step' = step
                  /\ resultUrl' = resultUrl
                  /\ resultSummary' = resultSummary
          /\ did'.kind \in {"fetchFailed", "fetchOk"} => ~isProcessing'
          /\ isProcessing' => Len(requests') > 0]_allVars

C17_Witness ==
    /\ did.kind = "fetchFailed"
    /\ ~isProcessing
    /\ step = "configure"
    /\ resultUrl # <<>>
    /\ resultSummary # ""

(* C18: handleReset sets step to upload, file to null, previewUrl and
   resultUrl to empty, mode to photo-enhancer and strength to 50, and leaves
   isProcessing, resultSummary, dimensions and the theme as they were. *)
C18_ResetFrame ==
    [][did'.kind = "reset"
         => /\ step' = "upload"
            /\ file' = "null"
            /\ previewUrl' = <<>>
            /\ resultUrl' = <<>>
            /\ mode' = "photo-enhancer"
            /\ strength' = 50
            /\ isProcessing' = isProcessing
            /\ resultSummary' = resultSummary
            /\ dimensions' = dimensions
            /\ isDarkMode' = isDarkMode]_allVars

C18_Witness ==
    /\ did.kind = "reset"
    /\ step = "upload"
    /\ file = "null"
    /\ mode = "photo-enhancer"
    /\ strength = 50
    /\ isProcessing
    /\ resultSummary # ""
    /\ dimensions # NoDimensions
    /\ ~isDarkMode

(* C19: a file given to the upload zone whose type does not start with image/
   is rejected, step stays upload and file stays null; a file whose type
   starts with image/ becomes the current file and step becomes configure. *)
C19_OnlyImagesAccepted ==
    [][did'.kind \in {"rejected", "fileSelect"}
         => IF did'.arg \in ImageFiles
            THEN /\ did'.kind = "fileSelect"
                 /\ file' = did'.arg
                 /\ step' = "configure"
            ELSE /\ did'.kind = "rejected"
                 /\ step = "upload" /\ step' = "upload"
                 /\ file = "null" /\ file' = "null"]_allVars

C19_Witness ==
    /\ did = [kind |-> "rejected", arg |-> "imagery"]
    /\ step = "upload"
    /\ file = "null"

(* C20: whenever step is result, file is non-null, previewUrl is non-empty and
   resultUrl is non-empty. *)
C20_ResultHasImage ==
    step = "result"
      => /\ file # "null"
         /\ previewUrl # <<>>
         /\ resultUrl # <<>>

(* C21: whenever step is result and a file is loaded, the enhanced image shown
   is the response to a request that was sent for that file; a response to a
   request started before a reset or before another file was selected is never
   shown for a different file. *)
C21_ResultBelongsToFile ==
    (step = "result" /\ file # "null")
      => /\ resultUrl # <<>>
         /\ resultUrl[2] = file

(* C22: whenever step is result, the mode and the strength shown in the header
   of the result view are the mode and the strength that were sent in the
   request whose response is displayed, also when the user changed mode or
   strength while the request was in flight. *)
C22_ShownSettingsWereSent ==
    (step = "result" /\ resultUrl # <<>>)
      => /\ \E m \in Modes : /\ MODE_LABELS(m) = ShownMode
                             /\ MapModeToBackend(m) = resultUrl[3]
         /\ ShownStrength = resultUrl[4]

====
